---- MODULE Spec2Model ----
(***************************************************************************)
(* Minimum Branch Vertices Spanning Tree by iterated ILP solves and a      *)
(* reconnection heuristic (src/ilp_solver.py, src/ilp_updated.py).         *)
(*                                                                         *)
(* A graph is a record [n |-> number of vertices, E |-> set of edges];     *)
(* the vertices are 1..n (charger_graphe_depuis_txt) and an edge is a pair *)
(* <<u, v>> with u < v.  Node and adjacency enumeration are ascending, as  *)
(* they are for an instance file that lists its edges in sorted order.     *)
(***************************************************************************)
EXTENDS Integers, Sequences, FiniteSets, Bags, TLC

\* Largest vertex count of the exhaustively enumerated input graphs.
MaxN == 4

\* Cap on the iteration counter of the while-True loop.
MaxIter == 12

VARIABLES G, variant, root, pc, ponts, partitions, edges_forcees, n_quota,
          iteration, sol_edges, new_edges, ret

vars == <<G, variant, root, pc, ponts, partitions, edges_forcees, n_quota,
          iteration, sol_edges, new_edges, ret>>

----------------------------------------------------------------------------
(* Graph primitives (networkx.Graph as used by the program).               *)

Nodes(g) == 1..g.n

\* tuple(sorted(e))
SortedEdge(e) == IF e[1] <= e[2] THEN e ELSE <<e[2], e[1]>>

Ends(e) == {e[1], e[2]}

\* Graph.degree(v) of the graph with edge set E
DegreeIn(E, v) == Cardinality({e \in E : v \in Ends(e)})

Neighbours(E, v) == {IF e[1] = v THEN e[2] ELSE e[1] : e \in {f \in E : v \in Ends(f)}}

RECURSIVE Reach(_, _, _)
Reach(E, frontier, seen) ==
    IF frontier = {} THEN seen
    ELSE UNION {Reach(E, nxt, seen \cup nxt) :
                    nxt \in {UNION {Neighbours(E, v) : v \in frontier} \ seen}}

\* the connected component of v in the graph (V, E)
ComponentOf(E, v) == Reach(E, {v}, {v})

RECURSIVE connected_components(_, _)
\* nx.connected_components: the component of a vertex not yet seen, until
\* every vertex is seen
connected_components(V, E) ==
    IF V = {} THEN {}
    ELSE LET c == ComponentOf(E, CHOOSE v \in V : TRUE)
         IN  {c} \cup connected_components(V \ c, E)

\* nx.is_connected: a search from one vertex reaches every vertex
is_connected(V, E) == ComponentOf(E, CHOOSE v \in V : TRUE) = V

\* nx.bridges: the edges whose removal disconnects their endpoints
bridges(g) == {e \in g.E : e[2] \notin ComponentOf(g.E \ {e}, e[1])}

RECURSIVE SortedSeq(_)
SortedSeq(S) ==
    IF S = {} THEN <<>>
    ELSE LET m == CHOOSE x \in S : \A y \in S : x <= y
         IN  <<m>> \o SortedSeq(S \ {m})

\* iteration order of G[z]
Adj(g, z) == SortedSeq(Neighbours(g.E, z))

EdgeBefore(e, f) == e[1] < f[1] \/ (e[1] = f[1] /\ e[2] <= f[2])

RECURSIVE EdgeSeq(_)
EdgeSeq(E) ==
    IF E = {} THEN <<>>
    ELSE LET m == CHOOSE e \in E : \A f \in E : EdgeBefore(e, f)
         IN  <<m>> \o EdgeSeq(E \ {m})

\* G.edges(): the edges in enumeration order
edges(g) == EdgeSeq(g.E)

Range(s) == {s[i] : i \in 1..Len(s)}

----------------------------------------------------------------------------
(* analyser_structure: bridges and the degree partition.                   *)

\* partitions: degree <= 2 goes to "V01", every other vertex to "V2";
\* "V3" is created and left empty.
Partitions(g) ==
    [V01 |-> {v \in Nodes(g) : DegreeIn(g.E, v) <= 2},
     V2  |-> {v \in Nodes(g) : ~(DegreeIn(g.E, v) <= 2)},
     V3  |-> {}]

\* ponts = list(nx.bridges(G)): the library reports each bridge as the pair
\* G.edges() enumerates
Ponts(g) == {e \in Range(edges(g)) : e \in bridges(g)}

\* max(1, int(n ** 0.5 / 2)): int() truncates, so the value is the largest
\* k with (2k)^2 <= n, raised to 1.
QuotaInitial(n) ==
    LET k == CHOOSE j \in 0..n : 4 * j * j <= n /\ 4 * (j + 1) * (j + 1) > n
    IN  IF k > 1 THEN k ELSE 1

----------------------------------------------------------------------------
(* nx.cycle_basis(G): the stack walk of the library, started at root.      *)
(* pred[v] = 0 stands for "v is not yet a key of pred / used".             *)

RECURSIVE WalkUp(_, _, _, _)
\* p = pred[z]; while p not in pn: cycle.append(p); p = pred[p]; then append p
WalkUp(pred, pn, p, cycle) ==
    IF p \in pn THEN Append(cycle, p)
    ELSE WalkUp(pred, pn, pred[p], Append(cycle, p))

RECURSIVE ForNbrs(_, _, _, _, _)
\* for nbr in G[z]: ... ; st = [stack, pred, used, cycles]
ForNbrs(z, zused, nbrs, i, st) ==
    IF i > Len(nbrs) THEN st
    ELSE LET nbr == nbrs[i]
         IN  IF st.pred[nbr] = 0
             THEN ForNbrs(z, zused, nbrs, i + 1,
                      [st EXCEPT !.pred[nbr] = z,
                                 !.stack = Append(@, nbr),
                                 !.used[nbr] = {z}])
             ELSE IF nbr \notin zused
             THEN ForNbrs(z, zused, nbrs, i + 1,
                      [st EXCEPT !.cycles = Append(@,
                                      WalkUp(st.pred, st.used[nbr], st.pred[z], <<nbr, z>>)),
                                 !.used[nbr] = @ \cup {z}])
             ELSE ForNbrs(z, zused, nbrs, i + 1, st)

RECURSIVE WalkTree(_, _)
\* while stack: z = stack.pop(); ...
WalkTree(g, st) ==
    IF st.stack = <<>> THEN st.cycles
    ELSE LET z == st.stack[Len(st.stack)]
             popped == [st EXCEPT !.stack = SubSeq(@, 1, Len(@) - 1)]
         IN  WalkTree(g, ForNbrs(z, st.used[z], Adj(g, z), 1, popped))

\* the list of cycles (each a list of vertices) of the component of r
cycle_basis(g, r) ==
    WalkTree(g, [stack  |-> <<r>>,
                 pred   |-> [v \in Nodes(g) |-> IF v = r THEN r ELSE 0],
                 used   |-> [v \in Nodes(g) |-> {}],
                 cycles |-> <<>>])

\* root = gnodes.pop() takes the first vertex in library versions that keep
\* the vertices in a set, root = gnodes.popitem()[0] the last one in the
\* versions that keep them in a dict
Roots(g) == {1, g.n}

\* aretes_du_cycle: (cycle[i], cycle[(i + 1) % len]) sorted, for each i
aretes_du_cycle(cycle) ==
    [i \in 1..Len(cycle) |-> SortedEdge(<<cycle[i], cycle[(i % Len(cycle)) + 1]>>)]

----------------------------------------------------------------------------
(* resoudre_ilp_iteration: the 0/1 program handed to the solver.  An       *)
(* assignment is [x |-> the edges e with x_e = 1,                          *)
(*                y |-> the V2 vertices v with y_v = 1].                   *)

\* all_edges = [tuple(sorted(e)) for e in G.edges()]
all_edges(g) == {SortedEdge(e) : e \in g.E}

\* variant of Objectif: a constant objective
ObjectifNul(a) == 0

\* Objectif: sum of y_v over partitions['V2']
Objectif(a) == Cardinality(a.y)

\* variant of ContrainteCardinalite: at least n - 1 edges
ContrainteCardinaliteAuMoins(g, X) == Cardinality(X) >= g.n - 1

\* Contrainte (1): sum of x_e == n - 1
ContrainteCardinalite(g, X) == Cardinality(X) = g.n - 1

\* variant of ContrainteCycles: the bound is the cycle length
ContrainteCyclesLarge(aretes, X) ==
    \A k \in 1..Len(aretes) :
        Cardinality({i \in 1..Len(aretes[k]) : aretes[k][i] \in X}) <= Len(aretes[k])

\* variant of ContrainteCycles: the bound is the cycle length minus 2
ContrainteCyclesStricte(aretes, X) ==
    \A k \in 1..Len(aretes) :
        Cardinality({i \in 1..Len(aretes[k]) : aretes[k][i] \in X}) <= Len(aretes[k]) - 2

\* Contrainte (4): for each basis cycle, sum of x_e over its edges <= len - 1;
\* aretes[k] is the edge list of the k-th basis cycle
ContrainteCycles(aretes, X) ==
    \A k \in 1..Len(aretes) :
        Cardinality({i \in 1..Len(aretes[k]) : aretes[k][i] \in X}) <= Len(aretes[k]) - 1

\* variant of AretesFixees: the bridges at the last vertex are left out
AretesFixeesSansPonts(g, pts, forcees) ==
    {SortedEdge(e) : e \in {f \in pts : g.n \notin Ends(f)} \cup BagToSet(forcees)}
        \cap {SortedEdge(e) : e \in g.E}

\* variant of AretesFixees: the forced edges are left out
AretesFixeesSansForcees(g, pts, forcees) ==
    {SortedEdge(e) : e \in pts} \cap {SortedEdge(e) : e \in g.E}

\* Contrainte (2): the edges e of set(ponts + edges_forcees) with
\* tuple(sorted(e)) in x; each gets x == 1
AretesFixees(g, pts, forcees) ==
    {SortedEdge(e) : e \in pts \cup BagToSet(forcees)} \cap all_edges(g)

\* variant of ContrainteDegre: the y term is dropped
ContrainteDegreSansY(g, parts, X, i, yi) ==
    Cardinality({e \in X : i \in Ends(e)}) <= 2

\* variant of ContrainteDegre: a V2 vertex may take its full degree whatever
\* its indicator
ContrainteDegreSansIndicateur(g, parts, X, i, yi) ==
    IF i \in parts.V2
    THEN Cardinality({e \in X : i \in Ends(e)}) <= DegreeIn(g.E, i)
    ELSE Cardinality({e \in X : i \in Ends(e)}) <= 2

\* Contraintes (5) & (6) for vertex i, with yi the value of y_i (0 when i
\* has no y variable)
ContrainteDegre(g, parts, X, i, yi) ==
    LET incidentes == {e \in X : i \in Ends(e)}
    IN  IF i \in parts.V2
        THEN Cardinality(incidentes) <= 2 + (DegreeIn(g.E, i) - 2) * yi
        ELSE IF i \in parts.V01
        THEN Cardinality(incidentes) <= 2
        ELSE Cardinality(incidentes) <= DegreeIn(g.E, i)

\* the values of y that satisfy (5) & (6) together with x = X: y_i occurs
\* only in the constraint of vertex i, so y is feasible exactly when it holds
\* 1 wherever 0 is refused and 0 wherever 1 is refused
YRealisables(g, parts, X) ==
    LET un   == {i \in parts.V2 : ~ContrainteDegre(g, parts, X, i, 0)}
        zero == {i \in parts.V2 : ~ContrainteDegre(g, parts, X, i, 1)}
    IN  IF (\E i \in Nodes(g) \ parts.V2 : ~ContrainteDegre(g, parts, X, i, 0))
           \/ un \cap zero # {}
        THEN {}
        ELSE {un \cup S : S \in SUBSET (parts.V2 \ (un \cup zero))}

\* the feasible assignments of the program; cycles is nx.cycle_basis(G)
Realisables(g, parts, pts, forcees, cycles) ==
    LET fixes  == AretesFixees(g, pts, forcees)
        aretes == [k \in 1..Len(cycles) |-> aretes_du_cycle(cycles[k])]
        XS == {X \in {fixes \cup S : S \in SUBSET (all_edges(g) \ fixes)} :
                  ContrainteCardinalite(g, X) /\ ContrainteCycles(aretes, X)}
    IN  UNION {{[x |-> X, y |-> Y] : Y \in YRealisables(g, parts, X)} : X \in XS}

\* variant of Optimales: any feasible assignment is returned
OptimalesToutes(F) == F

\* prob.solve(solver): the assignments the solver may return with status 1
\* (optimal); the empty set when the program is infeasible
Optimales(F) ==
    IF F = {} THEN {}
    ELSE LET vals == {Objectif(a) : a \in F}
             best == CHOOSE m \in vals : \A k \in vals : m <= k
         IN  {a \in F : Objectif(a) = best}

\* the possible outcomes of one call: [ok |-> status == 1, x, y]; the
\* function returns the list of edges with value 1, or None
resoudre_ilp_iteration(g, parts, pts, forcees, cycles) ==
    LET opt == Optimales(Realisables(g, parts, pts, forcees, cycles))
    IN  IF opt = {} THEN {[ok |-> FALSE, x |-> {}, y |-> {}]}
        ELSE {[ok |-> TRUE, x |-> a.x, y |-> a.y] : a \in opt}

----------------------------------------------------------------------------
(* The reconnection heuristic of resoudre_mbvst.                           *)

\* variant of candidates: each edge is appended as (v, u), larger end first
candidatesInverses(g, TE) ==
    LET es == edges(g)
        sel == SelectSeq(es, LAMBDA e : ComponentOf(TE, e[1]) # ComponentOf(TE, e[2]))
    IN  [i \in 1..Len(sel) |-> <<SortedEdge(sel[i])[2], SortedEdge(sel[i])[1]>>]

\* variant of candidates: the test c_u != c_v is left out
candidatesToutesAretes(g, TE) == edges(g)

\* candidates: the edges (u, v) of G.edges(), in enumeration order, whose
\* endpoints lie in different components of T, each as tuple(sorted((u, v)))
candidates(g, TE) ==
    LET es == edges(g)
        composantes == connected_components(Nodes(g), TE)
        c(v) == CHOOSE k \in composantes : v \in k
        cross(e) == c(e[1]) # c(e[2])
        sel == SelectSeq(es, cross)
    IN  [i \in 1..Len(sel) |-> SortedEdge(sel[i])]

\* score_arete(e) = T.degree(u) + T.degree(v)
score_arete(TE, e) == DegreeIn(TE, e[1]) + DegreeIn(TE, e[2])

RECURSIVE InsertByScoreInstable(_, _, _)
\* variant of InsertByScore: e goes in front of the elements of equal score
InsertByScoreInstable(TE, sorted, e) ==
    IF sorted = <<>> THEN <<e>>
    ELSE IF score_arete(TE, Head(sorted)) < score_arete(TE, e)
         THEN <<Head(sorted)>> \o InsertByScoreInstable(TE, Tail(sorted), e)
         ELSE <<e>> \o sorted

RECURSIVE InsertByScore(_, _, _)
\* place e behind every element whose score is not larger
InsertByScore(TE, sorted, e) ==
    IF sorted = <<>> THEN <<e>>
    ELSE IF score_arete(TE, Head(sorted)) <= score_arete(TE, e)
         THEN <<Head(sorted)>> \o InsertByScore(TE, Tail(sorted), e)
         ELSE <<e>> \o sorted

RECURSIVE SortByScore(_, _, _)
\* candidates.sort(key=score_arete): ascending and stable
SortByScore(TE, cands, done) ==
    IF cands = <<>> THEN done
    ELSE SortByScore(TE, Tail(cands), InsertByScore(TE, done, Head(cands)))

Min(a, b) == IF a <= b THEN a ELSE b

\* variant of sample_size: the quota is read after its decrement
sample_sizeApresDecrement(cands, quota) == Min(Len(cands), quota - 1)

\* sample_size = min(len(candidates), n_quota)
sample_size(cands, quota) == Min(Len(cands), quota)

\* the multiset of the elements of s at the positions P
BagAt(s, P) == [e \in {s[i] : i \in P} |-> Cardinality({i \in P : s[i] = e})]

\* ilp_updated: candidates[:sample_size] after the sort
NewEdgesScored(TE, cands, quota) ==
    LET tri == SortByScore(TE, cands, <<>>)
    IN  {BagAt(tri, 1..sample_size(cands, quota))}

\* variant of NewEdgesRandom: sample_size draws with replacement
NewEdgesRandomAvecRemise(cands, quota) ==
    {[e \in {cands[f[i]] : i \in DOMAIN f} |->
          Cardinality({i \in DOMAIN f : cands[f[i]] = e})] :
     f \in [1..sample_size(cands, quota) -> 1..Len(cands)]}

\* ilp_solver: random.sample(candidates, sample_size), the elements at any
\* sample_size distinct positions
NewEdgesRandom(cands, quota) ==
    {BagAt(cands, P) : P \in {Q \in SUBSET (1..Len(cands)) :
                                 Cardinality(Q) = sample_size(cands, quota)}}

\* variant of QuotaSuivant: no floor at 1
QuotaSuivantSansPlancher(q) == q - 1

\* if n_quota > 1: n_quota -= 1
QuotaSuivant(q) == IF q > 1 THEN q - 1 ELSE q

----------------------------------------------------------------------------
(* Input graphs.                                                           *)

Pairs(n) == {<<u, v>> \in (1..n) \X (1..n) : u < v}

\* every connected simple graph on 1..n, 2 <= n <= MaxN
SmallGraphs ==
    UNION {{[n |-> n, E |-> E] : E \in {F \in SUBSET Pairs(n) : is_connected(1..n, F)}} :
           n \in 2..MaxN}

\* the path a - (a+1) - ... - b
PathEdges(a, b) == {<<i, i + 1>> : i \in a..(b - 1)}

\* Scenario A: the path 1-2-3-4-5
GraphPath == [n |-> 5, E |-> PathEdges(1, 5)]

\* two diamonds {1,2,3,4} and {5,6,7,8} and the triangle 1-5-9 between them;
\* vertex 9 also carries the path 9-10-...-(n-1) and the pendant vertex n
RingGraph(n) ==
    [n |-> n,
     E |-> {<<1, 2>>, <<1, 3>>, <<2, 3>>, <<2, 4>>, <<3, 4>>,
            <<5, 6>>, <<5, 7>>, <<6, 7>>, <<6, 8>>, <<7, 8>>,
            <<1, 5>>, <<1, 9>>, <<5, 9>>} \cup PathEdges(9, n - 1) \cup {<<9, n>>}]

\* Scenario C: 16 vertices, so the initial quota is 2
GraphRing16 == RingGraph(16)

\* Scenario D: 36 vertices, so the initial quota is 3
GraphRing36 == RingGraph(36)

\* Scenario B: the triangle 1-2-3 with the pendant edge 3-4
GraphTriangle == [n |-> 4, E |-> {<<1, 2>>, <<2, 3>>, <<1, 3>>, <<3, 4>>}]

\* the hubs 1 and 2, adjacent to each other and to each of 3, 4, 5
GraphBook ==
    [n |-> 5, E |-> {<<1, 2>>, <<1, 3>>, <<1, 4>>, <<1, 5>>, <<2, 3>>, <<2, 4>>, <<2, 5>>}]

\* the complete graph on 1..4 with the pendant edge 4-5
GraphK4Pendant == [n |-> 5, E |-> Pairs(4) \cup {<<4, 5>>}]

Scenarios ==
    {GraphPath, GraphTriangle, GraphBook, GraphK4Pendant, GraphRing16, GraphRing36}

Graphs == SmallGraphs \cup Scenarios

\* cycles_base = nx.cycle_basis(G) is recomputed by every call of
\* resoudre_ilp_iteration, from a graph that never changes; the values are
\* tabulated per graph and start vertex
CyclesBase == [g \in Graphs |-> [r \in Roots(g) |-> cycle_basis(g, r)]]

----------------------------------------------------------------------------
(* resoudre_mbvst as a state machine.  edges_forcees and new_edges are     *)
(* Python lists that are only ever read through set(...) and extend(), so  *)
(* they are kept as multisets.  pc is the position in the loop:            *)
(* BUILD (top of the while), CHECK (a solve has returned), REPAIR (the     *)
(* candidate is disconnected), SUCCESS and INFEASIBLE (returned).          *)

NoReturn == [tag |-> "pending", nodes |-> {}, edges |-> {}]

\* the state on entry of the loop: analyser_structure has run,
\* edges_forcees = [], n_quota is initial, iteration = 0
Init ==
    /\ G \in Graphs
    /\ variant \in {"scored", "random"}
    /\ root \in Roots(G)
    /\ ponts = Ponts(G)
    /\ partitions = Partitions(G)
    /\ edges_forcees = EmptyBag
    /\ n_quota = QuotaInitial(G.n)
    /\ iteration = 0
    /\ sol_edges = [ok |-> FALSE, x |-> {}, y |-> {}]
    /\ new_edges = EmptyBag
    /\ ret = NoReturn
    /\ pc = "BUILD"

\* the answers the solver may give to the call of line 85 in this state
Solve == resoudre_ilp_iteration(G, partitions, ponts, edges_forcees,
                                CyclesBase[G][root])

\* iteration += 1; sol_edges = resoudre_ilp_iteration(...)
BuildSolve ==
    /\ pc = "BUILD"
    /\ iteration < MaxIter
    /\ iteration' = iteration + 1
    /\ sol_edges' \in Solve
    /\ pc' = "CHECK"
    /\ UNCHANGED <<G, variant, root, ponts, partitions, edges_forcees, n_quota,
                   new_edges, ret>>

\* variant of NotSolEdges: only the empty list is caught
NotSolEdgesVide(sol) == sol.ok /\ sol.x = {}

\* not sol_edges: None, or an empty list
NotSolEdges(sol) == ~sol.ok \/ sol.x = {}

\* if not sol_edges: return None
Infeasible ==
    /\ pc = "CHECK"
    /\ NotSolEdges(sol_edges)
    /\ ret' = [tag |-> "None", nodes |-> {}, edges |-> {}]
    /\ pc' = "INFEASIBLE"
    /\ UNCHANGED <<G, variant, root, ponts, partitions, edges_forcees, n_quota,
                   iteration, sol_edges, new_edges>>

\* T = Graph(nodes of G, sol_edges); the test of line 95
Accepte(g, sol) == is_connected(Nodes(g), sol.x)

\* if nx.is_connected(T): return T
Success ==
    /\ pc = "CHECK"
    /\ ~NotSolEdges(sol_edges)
    /\ Accepte(G, sol_edges)
    /\ ret' = [tag |-> "Graph", nodes |-> Nodes(G), edges |-> sol_edges.x]
    /\ pc' = "SUCCESS"
    /\ UNCHANGED <<G, variant, root, ponts, partitions, edges_forcees, n_quota,
                   iteration, sol_edges, new_edges>>

\* variant of Disconnected: the quota step is taken before the reconnection
DisconnectedAvecQuota ==
    /\ pc = "CHECK"
    /\ ~NotSolEdges(sol_edges)
    /\ ~Accepte(G, sol_edges)
    /\ n_quota' = QuotaSuivant(n_quota)
    /\ pc' = "REPAIR"
    /\ UNCHANGED <<G, variant, root, ponts, partitions, edges_forcees,
                   iteration, sol_edges, new_edges, ret>>

\* otherwise the loop body goes on to the reconnection
Disconnected ==
    /\ pc = "CHECK"
    /\ ~NotSolEdges(sol_edges)
    /\ ~Accepte(G, sol_edges)
    /\ pc' = "REPAIR"
    /\ UNCHANGED <<G, variant, root, ponts, partitions, edges_forcees, n_quota,
                   iteration, sol_edges, new_edges, ret>>

\* variant of Extend: the selection is not added
ExtendSansAjout(forcees, nouvelles) == forcees

\* variant of Extend: replacement instead of union
ExtendRemplace(forcees, nouvelles) == nouvelles

\* edges_forcees.extend(new_edges)
Extend(forcees, nouvelles) == forcees (+) nouvelles

\* lines 99-130 with the candidate T: the possible values of
\* <<new_edges, edges_forcees>> after the step, given the selection
Reconnexion(selection, forcees, nouvelles) ==
    IF selection = {} THEN {<<nouvelles, forcees>>}
    ELSE {<<s, Extend(forcees, s)>> : s \in selection}

\* ilp_updated.py lines 102-124: the selections the scored repair can make
\* for the candidate T of this state; none when there is no candidate edge
SelectionScored ==
    LET cands == candidates(G, sol_edges.x)
    IN  IF cands # <<>> THEN NewEdgesScored(sol_edges.x, cands, n_quota) ELSE {}

\* ilp_solver.py lines 102-115: the selections random.sample can make
SelectionRandom ==
    LET cands == candidates(G, sol_edges.x)
    IN  IF cands # <<>> THEN NewEdgesRandom(cands, n_quota) ELSE {}

\* ilp_updated.py: if candidates: sort by score, take the first sample_size,
\* extend; then the quota step
RepairScored ==
    /\ pc = "REPAIR"
    /\ variant = "scored"
    /\ \E p \in Reconnexion(SelectionScored, edges_forcees, new_edges) :
           new_edges' = p[1] /\ edges_forcees' = p[2]
    /\ n_quota' = QuotaSuivant(n_quota)
    /\ pc' = "BUILD"
    /\ UNCHANGED <<G, variant, root, ponts, partitions, iteration, sol_edges, ret>>

\* ilp_solver.py: if candidates: random.sample, extend; then the quota step
RepairRandom ==
    /\ pc = "REPAIR"
    /\ variant = "random"
    /\ \E p \in Reconnexion(SelectionRandom, edges_forcees, new_edges) :
           new_edges' = p[1] /\ edges_forcees' = p[2]
    /\ n_quota' = QuotaSuivant(n_quota)
    /\ pc' = "BUILD"
    /\ UNCHANGED <<G, variant, root, ponts, partitions, iteration, sol_edges, ret>>

Next ==
    \/ BuildSolve
    \/ Infeasible
    \/ Success
    \/ Disconnected
    \/ RepairScored
    \/ RepairRandom

Spec == Init /\ [][Next]_vars

Done == pc \in {"SUCCESS", "INFEASIBLE"}

----------------------------------------------------------------------------
(* Properties.                                                             *)

\* the branch vertices of the graph (V, E): degree > 2
BranchVertices(V, E) == {v \in V : DegreeIn(E, v) > 2}

\* the spanning trees of g: n - 1 edges that connect every vertex (each
\* contains every bridge of g)
SpanningTrees(g) ==
    LET b == {e \in g.E : ~is_connected(Nodes(g), g.E \ {e})}
    IN  {T \in {b \cup S : S \in SUBSET (g.E \ b)} :
            Cardinality(T) = g.n - 1 /\ is_connected(Nodes(g), T)}

\* per graph: its spanning trees, each with its number of branch vertices
TreesOf ==
    [g \in Graphs |->
        {[t |-> T, b |-> Cardinality(BranchVertices(Nodes(g), T))] : T \in SpanningTrees(g)}]

\* per graph: the edges whose removal disconnects it
BridgesOf == [g \in Graphs |-> {e \in g.E : ~is_connected(Nodes(g), g.E \ {e})}]

\* the statements speak of a candidate: a solve that returned status optimal
Candidate == sol_edges.ok

\* C1: a returned tree is a spanning tree of G: its vertices are those of G,
\* its edges are edges of G, there are n - 1 of them and they connect G
C1_ReturnedSpanningTree ==
    pc = "SUCCESS" =>
        /\ ret.tag = "Graph"
        /\ ret.nodes = Nodes(G)
        /\ ret.edges \subseteq G.E
        /\ Cardinality(ret.edges) = G.n - 1
        /\ ComponentOf(ret.edges, 1) = Nodes(G)

\* a tree accepted after at least two repairs
C1_Witness == pc = "SUCCESS" /\ iteration >= 3 /\ ret.tag = "Graph"

\* C2 as stated: the returned tree has the least number of branch vertices
\* among all spanning trees of G
C2_MinimumOverAllTrees ==
    pc = "SUCCESS" =>
        \A r \in TreesOf[G] : Cardinality(BranchVertices(ret.nodes, ret.edges)) <= r.b

\* C2 amended: the returned tree has the least number of branch vertices
\* among the spanning trees of G that contain every forced edge
C2_MinimumAmongForcedTrees ==
    pc = "SUCCESS" =>
        \A r \in TreesOf[G] :
            BagToSet(edges_forcees) \subseteq r.t =>
                Cardinality(BranchVertices(ret.nodes, ret.edges)) <= r.b

\* a tree accepted with forced edges, with a branch vertex, while other
\* spanning trees contain the forced edges too
C2_Witness ==
    /\ pc = "SUCCESS"
    /\ BagToSet(edges_forcees) # {}
    /\ BranchVertices(ret.nodes, ret.edges) # {}
    /\ \E r \in TreesOf[G] : BagToSet(edges_forcees) \subseteq r.t /\ r.t # ret.edges

\* C3: every candidate contains every bridge of G
C3_BridgesSelected == Candidate => BridgesOf[G] \subseteq sol_edges.x

\* a disconnected candidate of a graph with bridges, after a repair
C3_Witness ==
    /\ pc = "REPAIR"
    /\ iteration >= 2
    /\ BridgesOf[G] # {}
    /\ BridgesOf[G] \subseteq sol_edges.x

\* the edges of a cycle given as a list of vertices
CycleEdgeSet(c) == {SortedEdge(<<c[i], c[IF i = Len(c) THEN 1 ELSE i + 1]>>) : i \in 1..Len(c)}

\* C4: every candidate misses at least one edge of every basis cycle
C4_NoBasisCycleSelected ==
    Candidate =>
        \A c \in Range(CyclesBase[G][root]) :
            Cardinality(CycleEdgeSet(c) \cap sol_edges.x) <= Cardinality(CycleEdgeSet(c)) - 1

\* an accepted tree, after a repair, that has all edges but one of a basis cycle
C4_Witness ==
    /\ pc = "SUCCESS"
    /\ iteration >= 2
    /\ \E c \in Range(CyclesBase[G][root]) :
           Cardinality(CycleEdgeSet(c) \cap ret.edges) = Cardinality(CycleEdgeSet(c)) - 1

\* C5: the forced-edge list starts empty and no step removes an element of it
C5_ForcedMonotone ==
    /\ edges_forcees = EmptyBag
    /\ [][\A e \in BagToSet(edges_forcees) :
              /\ e \in BagToSet(edges_forcees')
              /\ CopiesIn(e, edges_forcees) <= CopiesIn(e, edges_forcees')]_vars

\* the third repair has added to a non-empty forced list
C5_Witness ==
    /\ pc = "BUILD"
    /\ iteration >= 3
    /\ BagCardinality(edges_forcees) >= 3
    /\ BagCardinality(new_edges) < BagCardinality(edges_forcees)

\* C6: the quota is an integer >= 1; a repair turns it into max(1, quota - 1)
\* and no other step changes it
C6_QuotaStep ==
    /\ [](n_quota \in Nat /\ n_quota >= 1)
    /\ [][/\ pc = "REPAIR" => n_quota' = (IF n_quota - 1 >= 1 THEN n_quota - 1 ELSE 1)
          /\ pc # "REPAIR" => n_quota' = n_quota]_vars

\* a quota that started above 1 has reached 1 and has stayed there in a
\* further repair
C6_Witness ==
    /\ pc = "BUILD"
    /\ QuotaInitial(G.n) >= 2
    /\ iteration >= QuotaInitial(G.n) + 1
    /\ n_quota = 1

\* C7: a solve that is not optimal ends the run in INFEASIBLE with the value
\* None, leaving the forced edges and the quota as they were; nothing
\* happens afterwards
C7_InfeasibleIsFinal ==
    /\ [](pc = "INFEASIBLE" => ret.tag = "None" /\ ret.edges = {} /\ ~sol_edges.ok)
    /\ [][/\ (pc = "BUILD" /\ ~sol_edges'.ok) =>
                 (edges_forcees' = edges_forcees /\ n_quota' = n_quota)
          /\ (pc = "CHECK" /\ ~sol_edges.ok) =>
                 /\ pc' = "INFEASIBLE"
                 /\ ret'.tag = "None"
                 /\ edges_forcees' = edges_forcees
                 /\ n_quota' = n_quota
                 /\ iteration' = iteration
          /\ pc # "INFEASIBLE"]_vars

\* the run has ended in INFEASIBLE after a repair
C7_Witness ==
    /\ pc = "INFEASIBLE"
    /\ iteration >= 2
    /\ edges_forcees # EmptyBag
    /\ ret.tag = "None"

\* the edges of g a repair can force: those that are not bridges
NonBridges(g) == g.E \ BridgesOf[g]

\* the number of solves a run on g can make: every repair forces an edge
\* that is not a bridge and was not forced, and a candidate holds n - 1 edges
MaxSolves(g) == g.n - Cardinality(BridgesOf[g]) + 1

\* position inside one pass of the loop body, highest first; a return is last
Rank(p) ==
    CASE p = "BUILD" -> 3
      [] p = "CHECK" -> 2
      [] p = "REPAIR" -> 1
      [] OTHER -> 0

\* what is left of a run: the edges not yet forced, then the position in the
\* pass; going from REPAIR back to BUILD lowers it only if the forced set grew
Measure(g, forcees, p) ==
    4 * (Cardinality(NonBridges(g)) - Cardinality(BagToSet(forcees))) + Rank(p)

\* C8: the loop ends, in SUCCESS or in INFEASIBLE, and cannot repair forever:
\* the number of solves is bounded by a function of G alone, the cap MaxIter
\* is never what stops a run, every position short of the two final ones has
\* a next step whatever the solver answers, and every step strictly lowers a
\* natural-number measure of what is left of the run (the edges of G not yet
\* forced, then the position in the pass)
C8_Terminates ==
    /\ [](/\ iteration <= MaxSolves(G)
          /\ Measure(G, edges_forcees, pc) \in Nat
          /\ pc = "BUILD" => iteration < MaxIter /\ Solve # {}
          /\ pc = "CHECK" => ENABLED (Infeasible \/ Success \/ Disconnected)
          /\ pc = "REPAIR" =>
                 Reconnexion(IF variant = "scored" THEN SelectionScored
                             ELSE SelectionRandom, edges_forcees, new_edges) # {}
          /\ pc \in {"BUILD", "CHECK", "REPAIR"} \/ Done)
    /\ [][Measure(G', edges_forcees', pc') < Measure(G, edges_forcees, pc)]_vars

\* a run that has ended after six repairs
C8_Witness == Done /\ iteration >= 7

\* C9: for a tree G (every edge a bridge) the first candidate is G, it is
\* accepted at iteration 1 without a repair; the path 1-2-3-4-5 is returned
\* with no branch vertex
C9_TreeInput ==
    Cardinality(G.E) = G.n - 1 =>
        /\ pc \in {"BUILD", "CHECK", "SUCCESS"}
        /\ pc = "BUILD" => iteration = 0
        /\ pc # "BUILD" => iteration = 1 /\ Candidate /\ sol_edges.x = G.E
        /\ pc = "CHECK" => ENABLED Success
        /\ pc = "SUCCESS" => ret.tag = "Graph" /\ ret.edges = G.E
        /\ (pc = "SUCCESS" /\ G = GraphPath) => BranchVertices(ret.nodes, ret.edges) = {}

\* the path has been returned
C9_Witness == G = GraphPath /\ pc = "SUCCESS" /\ ret.edges = PathEdges(1, 5)

\* C10: for the triangle with a pendant edge every first candidate has three
\* edges, among them 3-4, not the whole triangle, is connected and has no
\* branch vertex; it is accepted at iteration 1
C10_TrianglePendant ==
    G = GraphTriangle =>
        /\ pc \in {"BUILD", "CHECK", "SUCCESS"}
        /\ pc = "BUILD" => iteration = 0
        /\ pc # "BUILD" =>
               /\ iteration = 1
               /\ Candidate
               /\ Cardinality(sol_edges.x) = 3
               /\ <<3, 4>> \in sol_edges.x
               /\ ~({<<1, 2>>, <<2, 3>>, <<1, 3>>} \subseteq sol_edges.x)
               /\ ComponentOf(sol_edges.x, 1) = 1..4
               /\ BranchVertices(1..4, sol_edges.x) = {}
        /\ pc = "CHECK" => ENABLED Success
        /\ pc = "SUCCESS" => ret.edges = sol_edges.x

\* the tree 1-2, 2-3, 3-4 has been returned
C10_Witness ==
    G = GraphTriangle /\ pc = "SUCCESS" /\ ret.edges = {<<1, 2>>, <<2, 3>>, <<3, 4>>}

\* the edges of g whose endpoints lie in different components of (V, TE)
CrossEdges(g, TE) == {e \in g.E : ComponentOf(TE, e[1]) # ComponentOf(TE, e[2])}

\* C11: at every repair the candidate has a cross-component edge of G, and
\* the step forces at least one edge that was not forced before
C11_RepairGrows ==
    /\ [](pc = "REPAIR" => CrossEdges(G, sol_edges.x) # {})
    /\ [][pc = "REPAIR" =>
              BagToSet(edges_forcees') \ BagToSet(edges_forcees) # {}]_vars

\* two repairs with a quota of 1 have forced two different edges
C11_Witness ==
    /\ pc = "BUILD"
    /\ iteration = 2
    /\ QuotaInitial(G.n) = 1
    /\ Cardinality(BagToSet(edges_forcees)) = 2

\* floor(sqrt(n))
Isqrt(n) == CHOOSE s \in 0..n : s * s <= n /\ (s + 1) * (s + 1) > n

\* q_k = max(1, q_0 - (k - 1)) with q_0 = max(1, floor(sqrt(n) / 2))
QuotaAt(n, k) ==
    LET q0 == IF Isqrt(n) \div 2 >= 1 THEN Isqrt(n) \div 2 ELSE 1
    IN  IF q0 - (k - 1) >= 1 THEN q0 - (k - 1) ELSE 1

\* C12: the k-th repair (the one of iteration k) works with the quota q_k and
\* adds to the forced list exactly min(|candidates|, q_k) edges, all
\* different, all edges of G across two components of the candidate; in both
\* variants
C12_RepairSelection ==
    [][pc = "REPAIR" =>
          LET cross == CrossEdges(G, sol_edges.x)
              added == edges_forcees' (-) edges_forcees
              q     == QuotaAt(G.n, iteration)
          IN  /\ n_quota = q
              /\ edges_forcees' = edges_forcees (+) added
              /\ new_edges' = added
              /\ BagToSet(added) \subseteq cross
              /\ \A e \in BagToSet(added) : CopiesIn(e, added) = 1
              /\ BagCardinality(added) =
                     (IF Cardinality(cross) <= q THEN Cardinality(cross) ELSE q)]_vars

\* a repair with a quota of 2 has added two edges, the next one a single edge
C12_Witness ==
    /\ pc = "BUILD"
    /\ iteration = 2
    /\ QuotaInitial(G.n) = 2
    /\ BagCardinality(edges_forcees) = 3
    /\ BagCardinality(new_edges) = 1

\* e comes before f when the candidates are ordered by score in T, ties in
\* the order of G.edges()
ScoreBefore(TE, e, f) ==
    LET se == DegreeIn(TE, e[1]) + DegreeIn(TE, e[2])
        sf == DegreeIn(TE, f[1]) + DegreeIn(TE, f[2])
    IN  se < sf \/ (se = sf /\ EdgeBefore(e, f) /\ e # f)

\* C13: the scored repair selects the candidates that have fewer than
\* min(|candidates|, quota) candidates before them in the order by ascending
\* score, ties in enumeration order: a function of G's edge order and T, and
\* no candidate left out scores lower than a selected one
C13_ScoredSelection ==
    [][(pc = "REPAIR" /\ variant = "scored") =>
          LET cross == CrossEdges(G, sol_edges.x)
              k     == IF Cardinality(cross) <= n_quota
                       THEN Cardinality(cross) ELSE n_quota
              first == {e \in cross :
                           Cardinality({f \in cross : ScoreBefore(sol_edges.x, f, e)}) < k}
          IN  /\ BagToSet(new_edges') = first
              /\ \A e \in first : \A f \in cross \ first :
                     DegreeIn(sol_edges.x, e[1]) + DegreeIn(sol_edges.x, e[2])
                         <= DegreeIn(sol_edges.x, f[1]) + DegreeIn(sol_edges.x, f[2])]_vars

\* a scored repair has left out a candidate of the same score as the one it
\* selected: the tie was decided by the enumeration order
C13_Witness ==
    /\ pc = "BUILD"
    /\ variant = "scored"
    /\ iteration = 1
    /\ \E e \in BagToSet(new_edges) : \E f \in CrossEdges(G, sol_edges.x) :
           /\ f \notin BagToSet(new_edges)
           /\ DegreeIn(sol_edges.x, e[1]) + DegreeIn(sol_edges.x, e[2])
                  = DegreeIn(sol_edges.x, f[1]) + DegreeIn(sol_edges.x, f[2])

\* C14: a forced edge is selected in every candidate found after it was
\* forced, and in the tree that is returned
C14_ForcedStaySelected ==
    /\ (pc \in {"CHECK", "REPAIR"} /\ Candidate) =>
           BagToSet(edges_forcees) \subseteq sol_edges.x
    /\ pc = "SUCCESS" =>
           BagToSet(edges_forcees) \subseteq sol_edges.x \cap ret.edges

\* a tree returned after three repairs holds the edges they forced
C14_Witness ==
    /\ pc = "SUCCESS"
    /\ iteration >= 4
    /\ Cardinality(BagToSet(edges_forcees)) >= 3
    /\ BagToSet(edges_forcees) \subseteq ret.edges

\* C15: in a candidate a vertex of degree > 2 is in the high-degree class
\* with its indicator at 1, a vertex of the low-degree class has degree <= 2,
\* and the objective value, the sum of the indicators, is the number of
\* vertices of degree > 2
C15_DegreeAndObjective ==
    Candidate =>
        /\ \A v \in Nodes(G) :
               DegreeIn(sol_edges.x, v) > 2 => v \in partitions.V2 /\ v \in sol_edges.y
        /\ \A v \in partitions.V01 : DegreeIn(sol_edges.x, v) <= 2
        /\ sol_edges.y \subseteq partitions.V2
        /\ Cardinality(sol_edges.y) =
               Cardinality({v \in Nodes(G) : DegreeIn(sol_edges.x, v) > 2})

\* a candidate with a branch vertex, and a high-degree vertex that is none
C15_Witness ==
    /\ pc = "CHECK"
    /\ Candidate
    /\ \E v \in partitions.V2 : DegreeIn(sol_edges.x, v) > 2 /\ v \in sol_edges.y
    /\ \E v \in partitions.V2 : DegreeIn(sol_edges.x, v) <= 2 /\ v \notin sol_edges.y

\* C16: every forced edge is an edge of G with its smaller end first, so the
\* test "tuple(sorted(e)) in x" holds for it and none is dropped
C16_ForcedAreEdges ==
    \A e \in BagToSet(edges_forcees) \cup BagToSet(new_edges) :
        /\ e \in G.E
        /\ e[1] < e[2]
        /\ e \in all_edges(G)

\* forced edges at the moment the model is built from them
C16_Witness ==
    /\ pc = "BUILD"
    /\ iteration >= 1
    /\ Cardinality(BagToSet(edges_forcees)) >= 2
    /\ BagToSet(edges_forcees) \subseteq all_edges(G)

\* per graph: what analyser_structure returns for it
AnalyseOf == [g \in Graphs |-> <<Ponts(g), Partitions(g)>>]

\* C17: G, the bridges and the partition are those of the start at every
\* step; the forced edges and the quota change in a repair only; and a new
\* candidate is an answer to the model of G, its bridges, its partition and
\* the forced edges, whatever the candidate before
C17_Frame ==
    /\ [](/\ ponts = AnalyseOf[G][1] /\ partitions = AnalyseOf[G][2]
          /\ pc = "CHECK" =>
                 sol_edges \in resoudre_ilp_iteration(G, AnalyseOf[G][2], AnalyseOf[G][1],
                                                      edges_forcees, CyclesBase[G][root]))
    /\ [][/\ G' = G /\ ponts' = ponts /\ partitions' = partitions
          /\ pc # "REPAIR" => edges_forcees' = edges_forcees /\ n_quota' = n_quota]_vars

\* the second solve, after a repair that changed the forced edges and the quota
C17_Witness ==
    /\ pc = "CHECK"
    /\ iteration = 2
    /\ Candidate
    /\ n_quota < QuotaInitial(G.n)
    /\ edges_forcees # EmptyBag

\* C18: at a repair no cross-component edge is a bridge of G or a forced
\* edge, so the candidates are never all forced already, and the forced list
\* holds no edge twice
C18_CandidatesAreNew ==
    /\ pc = "REPAIR" =>
           /\ CrossEdges(G, sol_edges.x) \cap (BridgesOf[G] \cup BagToSet(edges_forcees)) = {}
           /\ ~(CrossEdges(G, sol_edges.x) \subseteq BagToSet(edges_forcees))
    /\ \A e \in BagToSet(edges_forcees) : CopiesIn(e, edges_forcees) = 1

\* a random repair of a graph with bridges that has forced edges already
C18_Witness ==
    /\ pc = "REPAIR"
    /\ variant = "random"
    /\ BridgesOf[G] # {}
    /\ BagCardinality(edges_forcees) >= 2
    /\ CrossEdges(G, sol_edges.x) # {}

\* C19: with nothing forced every spanning tree of G, with the indicators of
\* its branch vertices at 1, is feasible; the first solve is never
\* infeasible; a tree accepted at iteration 1 has the least number of branch
\* vertices among all spanning trees of G
C19_FirstIteration ==
    /\ (pc = "BUILD" /\ iteration = 0) =>
           LET F == Realisables(G, partitions, ponts, edges_forcees, CyclesBase[G][root])
           IN  \A r \in TreesOf[G] :
                   [x |-> r.t, y |-> BranchVertices(Nodes(G), r.t)] \in F
    /\ iteration = 1 => Candidate
    /\ (pc = "SUCCESS" /\ iteration = 1) =>
           \A r \in TreesOf[G] : Cardinality(BranchVertices(ret.nodes, ret.edges)) <= r.b

\* a graph with a cycle whose tree is accepted at iteration 1, with fewer
\* branch vertices than another spanning tree
C19_Witness ==
    /\ pc = "SUCCESS"
    /\ iteration = 1
    /\ Cardinality(G.E) >= G.n
    /\ \E r \in TreesOf[G] : Cardinality(BranchVertices(ret.nodes, ret.edges)) < r.b

====
